---- MODULE Spec2Model ----
(***************************************************************************)
(* Model of durchen_content_annotation/annotation.py: the marker table     *)
(* builder, the whole-text annotator, the segment extractor and the batch  *)
(* segment renderer.  Strings are sequences of one-character strings, so   *)
(* that slicing, splicing and the marker template are modelled character   *)
(* by character.  Offsets are 0-based as in the source; TLA+ sequences are *)
(* 1-based, so the character at offset j is s[j + 1].                      *)
(***************************************************************************)
EXTENDS Integers, Sequences, FiniteSets, TLC

VARIABLES text, durchen_data, op, args, result

vars == <<text, durchen_data, op, args, result>>

(***************************************************************************)
(* Bounds of the model.                                                    *)
(***************************************************************************)
MaxTextLen == 3
MaxAnn == 2
MaxSeg == 2
MaxManyLen == 2
MaxManyAnn == 3
MaxManySeg == 1
MaxStripLen == 4
MaxStripAnn == 2
MaxStripSeg == 1
MaxRawLen == 2
MaxRawAnn == 2
MaxRawSeg == 1

(***************************************************************************)
(* Python values.                                                          *)
(***************************************************************************)
Min(a, b) == IF a < b THEN a ELSE b

Max(a, b) == IF a > b THEN a ELSE b

\* An Optional argument: None is the empty tuple, a given value v is <<v>>.
None == <<>>

Some(v) == <<v>>

\* The outcome of a call: a returned value, or the exception that left it.
Ok(v) == [error |-> "", value |-> v]

Raise(e) == [error |-> e, value |-> <<>>]

\* A slice bound as CPython normalises it against a sequence of length n.
SliceIndex(i, n) == IF i < 0 THEN Max(i + n, 0) ELSE Min(i, n)

\* s[lo:hi]
PySlice(s, lo, hi) == SubSeq(s, SliceIndex(lo, Len(s)) + 1, SliceIndex(hi, Len(s)))

\* s[:hi]
PyPrefix(s, hi) == PySlice(s, 0, hi)

\* s[lo:]
PySuffix(s, lo) == PySlice(s, lo, Len(s))

(***************************************************************************)
(* The marker template                                                     *)
(*   <sup class="footnote-marker"></sup><i class="footnote">{note}</i>     *)
(***************************************************************************)
MarkerOpen == <<"<", "s", "u", "p", " ", "c", "l", "a", "s", "s", "=", "\"", "f", "o", "o", "t", "n", "o", "t", "e", "-", "m", "a", "r", "k", "e", "r", "\"", ">", "<", "/", "s", "u", "p", ">", "<", "i", " ", "c", "l", "a", "s", "s", "=", "\"", "f", "o", "o", "t", "n", "o", "t", "e", "\"", ">">>

MarkerClose == <<"<", "/", "i", ">">>

Marker(note) == MarkerOpen \o note \o MarkerClose

(***************************************************************************)
(* _build_tag_position_map_from_durchen                                    *)
(***************************************************************************)
\* list.sort is stable: an entry goes after every entry whose key is not
\* larger than its own.
InsertByPosUnstable(sorted, x) ==
    LET k == Cardinality({j \in 1..Len(sorted) : sorted[j].original_pos < x.original_pos})
    IN  SubSeq(sorted, 1, k) \o <<x>> \o SubSeq(sorted, k + 1, Len(sorted))

InsertByPos(sorted, x) ==
    LET k == Cardinality({j \in 1..Len(sorted) : sorted[j].original_pos <= x.original_pos})
    IN  SubSeq(sorted, 1, k) \o <<x>> \o SubSeq(sorted, k + 1, Len(sorted))

RECURSIVE SortByPos(_)
SortByPos(entries) ==
    IF entries = <<>> THEN <<>>
    ELSE InsertByPos(SortByPos(SubSeq(entries, 1, Len(entries) - 1)), entries[Len(entries)])

\* The for loop of the builder; a missing key raises KeyError at its lookup.
RECURSIVE BuildLoop(_, _, _)
BuildLoop(durchen, i, tag_position_map) ==
    IF i > Len(durchen) THEN Ok(tag_position_map)
    ELSE LET item == durchen[i]
         IN  IF "span" \notin DOMAIN item THEN Raise("KeyError")
             ELSE IF "end" \notin DOMAIN item.span THEN Raise("KeyError")
             ELSE IF "note" \notin DOMAIN item THEN Raise("KeyError")
             ELSE BuildLoop(durchen, i + 1,
                            Append(tag_position_map,
                                   [tag |-> Marker(item.note),
                                    original_pos |-> item.span.end]))

build_tag_position_map_from_durchen(durchen) ==
    LET built == BuildLoop(durchen, 1, <<>>)
    IN  IF built.error # "" THEN built ELSE Ok(SortByPos(built.value))

(***************************************************************************)
(* insert_durchen_tags                                                     *)
(***************************************************************************)
Reversed(s) == [i \in 1..Len(s) |-> s[Len(s) + 1 - i]]

NotReversed(s) == s

\* The order in which the table is traversed.
InsertionOrder(tag_position_map) == Reversed(tag_position_map)

Splice(annotated_text, end_index, tag) ==
    PyPrefix(annotated_text, end_index) \o tag \o PySuffix(annotated_text, end_index)

RECURSIVE InsertLoop(_, _, _)
InsertLoop(annotated_text, order, i) ==
    IF i > Len(order) THEN annotated_text
    ELSE InsertLoop(Splice(annotated_text, order[i].original_pos, order[i].tag), order, i + 1)

insert_durchen_tags(t, durchen) ==
    LET built == build_tag_position_map_from_durchen(durchen)
    IN  IF built.error # "" THEN built
        ELSE Ok(InsertLoop(t, InsertionOrder(built.value), 1))

(***************************************************************************)
(* get_segment_with_tags                                                   *)
(***************************************************************************)
InRangeClosed(pos, start, end) == start <= pos /\ pos <= end

InRangeFromStart(pos, start, end) == start <= pos /\ pos < end

InRangeOpen(pos, start, end) == start < pos /\ pos < end

InRange(pos, start, end) == start < pos /\ pos <= end

RelevantTags(tag_position_map, start, end) ==
    LET Keep(tag_info) == InRange(tag_info.original_pos, start, end)
    IN  SelectSeq(tag_position_map, Keep)

RECURSIVE SegmentLoop(_, _, _, _, _, _)
SegmentLoop(original_segment, relevant_tags, start, i, current_pos, result_parts) ==
    IF i > Len(relevant_tags)
    THEN [current_pos |-> current_pos, result_parts |-> result_parts]
    ELSE LET tag_info == relevant_tags[i]
             relative_pos == tag_info.original_pos - start
             before == IF relative_pos > current_pos
                       THEN result_parts \o PySlice(original_segment, current_pos, relative_pos)
                       ELSE result_parts
         IN  SegmentLoop(original_segment, relevant_tags, start, i + 1,
                         relative_pos, before \o tag_info.tag)

RemainingTextDropped(original_segment, current_pos, result_parts) == result_parts

RemainingText(original_segment, current_pos, result_parts) ==
    IF current_pos < Len(original_segment)
    THEN result_parts \o PySuffix(original_segment, current_pos)
    ELSE result_parts

get_segment_with_tags(original_text, tag_position_map, start, end) ==
    LET original_segment == PySlice(original_text, start, end)
        relevant_tags == RelevantTags(tag_position_map, start, end)
        looped == SegmentLoop(original_segment, relevant_tags, start, 1, 0, <<>>)
    IN  IF relevant_tags = <<>> THEN original_segment
        ELSE RemainingText(original_segment, looped.current_pos, looped.result_parts)

(***************************************************************************)
(* get_all_segments_with_tags                                              *)
(***************************************************************************)
SegmentWithContentFirst(segments_with_tags, id, content) ==
    <<[id |-> id, content |-> content]>> \o segments_with_tags

\* segments_with_tags.append({"id": ..., "content": ...})
SegmentWithContent(segments_with_tags, id, content) ==
    Append(segments_with_tags, [id |-> id, content |-> content])

\* The for loop over the segments; bound is the Optional marker table: it
\* is unbound (None) when durchen_data was None.
RECURSIVE AllSegmentsLoop(_, _, _, _, _)
AllSegmentsLoop(original_text, segmentation_data, bound, i, segments_with_tags) ==
    IF i > Len(segmentation_data) THEN Ok(segments_with_tags)
    ELSE LET segment == segmentation_data[i]
         IN  IF "span" \notin DOMAIN segment THEN Raise("KeyError")
             ELSE IF "start" \notin DOMAIN segment.span THEN Raise("KeyError")
             ELSE IF "end" \notin DOMAIN segment.span THEN Raise("KeyError")
             ELSE IF bound = None THEN Raise("UnboundLocalError")
             ELSE IF "id" \notin DOMAIN segment THEN Raise("KeyError")
             ELSE AllSegmentsLoop(original_text, segmentation_data, bound, i + 1,
                     SegmentWithContent(segments_with_tags, segment.id,
                         get_segment_with_tags(original_text, bound[1],
                                               segment.span.start, segment.span.end)))

\* durchen is the Optional durchen_data argument.
get_all_segments_with_tags(original_text, segmentation_data, durchen) ==
    LET built == IF durchen # None
                 THEN build_tag_position_map_from_durchen(durchen[1])
                 ELSE Ok(<<>>)
        bound == IF durchen # None THEN Some(built.value) ELSE None
    IN  IF built.error # "" THEN built
        ELSE AllSegmentsLoop(original_text, segmentation_data, bound, 1, <<>>)

(***************************************************************************)
(* Inputs.  A pass is given a text and an annotation list; the calls draw  *)
(* their remaining arguments.                                              *)
(***************************************************************************)
BaseText == <<"<", "s", "u", "p", "a", "b">>

Texts(n) == {SubSeq(BaseText, 1, k) : k \in 0..n}

Notes == {<<"n">>, <<"m">>}

\* Notes that the marker pattern of the tests does not get past.
StripNotes == {<<"n">>, <<"\n">>, MarkerClose}

SeqsUpTo(S, n) == UNION {[1..k -> S] : k \in 0..n}

Annotation(e, note) == [span |-> [start |-> 0, end |-> e], note |-> note]

Annotations(t, notes) == {Annotation(e, note) : e \in 0..Len(t), note \in notes}

Spans(t) == {[start |-> s, end |-> e] : s \in 0..Len(t), e \in 0..Len(t)}

ValidSpans(t) == {sp \in Spans(t) : sp.start <= sp.end}

NonEmptySpans(t) == {sp \in Spans(t) : sp.start < sp.end}

SegmentId(i) == <<"seg1", "seg2", "seg3", "seg4">>[i]

SegmentLists(spans, n) ==
    UNION {{[i \in 1..k |-> [id |-> SegmentId(i), span |-> sp[i]]] : sp \in [1..k -> spans]}
           : k \in 0..n}

\* Records as they may arrive from the data files: offsets outside the text
\* and records with a key missing.
RawNotes == {<<"n">>}

RawOffsets(t) == -1..(Len(t) + 1)

RawAnnotations(t) ==
    {Annotation(e, note) : e \in RawOffsets(t), note \in RawNotes}
    \cup {[span |-> [end |-> e], note |-> note] : e \in 0..Len(t), note \in RawNotes}
    \cup {[span |-> [start |-> 0], note |-> note] : note \in RawNotes}
    \cup {[note |-> note] : note \in RawNotes}
    \cup {[span |-> [start |-> 0, end |-> e]] : e \in 0..Len(t)}

RawSpans(t) == {[start |-> s, end |-> e] : s \in RawOffsets(t), e \in RawOffsets(t)}

RawSegments(t) ==
    {[id |-> "seg1", span |-> sp] : sp \in RawSpans(t)}
    \cup {[span |-> sp] : sp \in ValidSpans(t)}
    \cup {[id |-> "seg1"]}
    \cup {[id |-> "seg1", span |-> [end |-> e]] : e \in 0..Len(t)}
    \cup {[id |-> "seg1", span |-> [start |-> s]] : s \in 0..Len(t)}

(***************************************************************************)
(* The state machine: one call at a time, each a pure function of its      *)
(* arguments.                                                              *)
(***************************************************************************)
Idle == op = "idle" /\ args = <<>> /\ result = Ok(<<>>)

Init ==
    /\ text \in Texts(MaxTextLen)
    /\ durchen_data \in SeqsUpTo(Annotations(text, Notes), MaxAnn)
    /\ Idle

InitMany ==
    /\ text \in Texts(MaxManyLen)
    /\ durchen_data \in SeqsUpTo(Annotations(text, Notes), MaxManyAnn)
    /\ Idle

InitStrip ==
    /\ text \in Texts(MaxStripLen)
    /\ durchen_data \in SeqsUpTo(Annotations(text, StripNotes), MaxStripAnn)
    /\ Idle

InitRaw ==
    /\ text \in Texts(MaxRawLen)
    /\ durchen_data \in SeqsUpTo(RawAnnotations(text), MaxRawAnn)
    /\ Idle

InsertDurchenTags ==
    /\ op = "idle"
    /\ op' = "insert_durchen_tags"
    /\ args' = <<>>
    /\ result' = insert_durchen_tags(text, durchen_data)
    /\ UNCHANGED <<text, durchen_data>>

BuildTagPositionMap ==
    /\ op = "idle"
    /\ op' = "build_tag_position_map_from_durchen"
    /\ args' = <<>>
    /\ result' = build_tag_position_map_from_durchen(durchen_data)
    /\ UNCHANGED <<text, durchen_data>>

\* The caller builds the table from the annotations and extracts one range.
GetSegmentWithTags(spans) ==
    /\ op = "idle"
    /\ build_tag_position_map_from_durchen(durchen_data).error = ""
    /\ \E sp \in spans :
          /\ op' = "get_segment_with_tags"
          /\ args' = sp
          /\ result' = Ok(get_segment_with_tags(text,
                              build_tag_position_map_from_durchen(durchen_data).value,
                              sp.start, sp.end))
    /\ UNCHANGED <<text, durchen_data>>

GetAllSegmentsWithTags(segment_lists, durchens) ==
    /\ op = "idle"
    /\ \E segmentation_data \in segment_lists, durchen \in durchens :
          /\ op' = "get_all_segments_with_tags"
          /\ args' = [segmentation_data |-> segmentation_data, durchen_data |-> durchen]
          /\ result' = get_all_segments_with_tags(text, segmentation_data, durchen)
    /\ UNCHANGED <<text, durchen_data>>

\* The call returns; nothing of it persists.
Return ==
    /\ op # "idle"
    /\ op' = "idle"
    /\ args' = <<>>
    /\ result' = Ok(<<>>)
    /\ UNCHANGED <<text, durchen_data>>

Next ==
    \/ InsertDurchenTags
    \/ BuildTagPositionMap
    \/ GetSegmentWithTags(ValidSpans(text))
    \/ GetAllSegmentsWithTags(SegmentLists(NonEmptySpans(text), MaxSeg), {Some(durchen_data)})
    \/ Return

NextMany ==
    \/ InsertDurchenTags
    \/ BuildTagPositionMap
    \/ GetSegmentWithTags(ValidSpans(text))
    \/ GetAllSegmentsWithTags(SegmentLists(NonEmptySpans(text), MaxManySeg), {Some(durchen_data), None})
    \/ Return

NextStrip ==
    \/ InsertDurchenTags
    \/ BuildTagPositionMap
    \/ GetSegmentWithTags(ValidSpans(text))
    \/ GetAllSegmentsWithTags(SegmentLists(NonEmptySpans(text), MaxStripSeg), {Some(durchen_data)})
    \/ Return

NextRaw ==
    \/ InsertDurchenTags
    \/ BuildTagPositionMap
    \/ GetSegmentWithTags(RawSpans(text))
    \/ GetAllSegmentsWithTags(SeqsUpTo(RawSegments(text), MaxRawSeg), {Some(durchen_data), None})
    \/ Return

Spec == Init /\ [][Next]_vars

\* Short texts with longer annotation lists; the batch call may leave
\* durchen_data out.
SpecMany == InitMany /\ [][NextMany]_vars

\* Texts and notes that interfere with the marker pattern of the tests.
SpecStrip == InitStrip /\ [][NextStrip]_vars

SpecRaw == InitRaw /\ [][NextRaw]_vars

(***************************************************************************)
(* Vocabulary of the properties.                                           *)
(***************************************************************************)
\* The table the calls of this pass work with.
Table == build_tag_position_map_from_durchen(durchen_data).value

RECURSIVE Flatten(_)
Flatten(parts) == IF parts = <<>> THEN <<>> ELSE Head(parts) \o Flatten(Tail(parts))

Tags(entries) == [i \in 1..Len(entries) |-> entries[i].tag]

\* The markers anchored at offset p, concatenated in table order.
MarkersAt(tag_position_map, p) ==
    LET At(tag_info) == tag_info.original_pos = p
    IN  Flatten(Tags(SelectSeq(tag_position_map, At)))

\* The total length of the markers of the entries 1..n of the table.
RECURSIVE MarkerLength(_, _)
MarkerLength(tag_position_map, n) ==
    IF n = 0 THEN 0
    ELSE MarkerLength(tag_position_map, n - 1) + Len(tag_position_map[n].tag)

\* The number of table entries anchored at an offset of at most p.
AnchoredUpTo(tag_position_map, p) ==
    Cardinality({i \in 1..Len(tag_position_map) : tag_position_map[i].original_pos <= p})

Occurs(sub, s) == \E i \in 1..(Len(s) - Len(sub) + 1) : SubSeq(s, i, i + Len(sub) - 1) = sub

UniqueTag(tag_position_map, i) ==
    \A j \in 1..Len(tag_position_map) : tag_position_map[j].tag = tag_position_map[i].tag => j = i

ExpectedSegment(t, tag_position_map, start, end) ==
    Flatten([k \in 1..(end - start) |-> <<t[start + k]>> \o MarkersAt(tag_position_map, start + k)])

(***************************************************************************)
(* C1.  get_segment_with_tags renders exactly the entries anchored in      *)
(* (start, end]: the result is the characters of text[start:end], each     *)
(* followed by the markers anchored right after it, and nothing else.  A   *)
(* marker anchored at start is left out, one anchored at end is rendered   *)
(* last, whether start is 0 or not.                                        *)
(***************************************************************************)
C1_SegmentRendersHalfOpenRange ==
    op = "get_segment_with_tags" =>
        /\ result.error = ""
        /\ result.value = ExpectedSegment(text, Table, args.start, args.end)

C1_Witness ==
    /\ op = "get_segment_with_tags"
    /\ 0 < args.start /\ args.start < args.end
    /\ \E i \in 1..Len(Table) : Table[i].original_pos = args.start
    /\ \E i \in 1..Len(Table) : Table[i].original_pos = args.end

(***************************************************************************)
(* C2.  As stated: a marker anchored at k is rendered in the segment       *)
(* [k, k+m] and left out of the segment [k-m, k], m > 0.  The code does    *)
(* the opposite.                                                           *)
(***************************************************************************)
C2_AsStated ==
    op = "get_segment_with_tags" =>
        \A i \in 1..Len(Table) :
            UniqueTag(Table, i) =>
                /\ (args.start = Table[i].original_pos /\ args.end > args.start)
                       => Occurs(Table[i].tag, result.value)
                /\ (args.end = Table[i].original_pos /\ args.start < args.end)
                       => ~Occurs(Table[i].tag, result.value)

\* C2, amended.  A marker anchored at k is rendered in the segment
\* [k-m, k] and left out of the segment [k, k+m], m > 0.
C2_BoundaryLaw ==
    op = "get_segment_with_tags" =>
        \A i \in 1..Len(Table) :
            UniqueTag(Table, i) =>
                /\ (args.end = Table[i].original_pos /\ args.start < args.end)
                       => Occurs(Table[i].tag, result.value)
                /\ (args.start = Table[i].original_pos /\ args.end > args.start)
                       => ~Occurs(Table[i].tag, result.value)

C2_Witness ==
    /\ op = "get_segment_with_tags"
    /\ args.start < args.end
    /\ \E i, j \in 1..Len(Table) :
          /\ UniqueTag(Table, i) /\ UniqueTag(Table, j)
          /\ Table[i].original_pos = args.start
          /\ Table[j].original_pos = args.end
          /\ Occurs(Table[j].tag, result.value)
          /\ ~Occurs(Table[i].tag, result.value)

(***************************************************************************)
(* C3.  insert_durchen_tags splices every marker in before the character   *)
(* originally at its anchor: the i-th table entry starts at index          *)
(* anchor_i plus the length of the markers of the earlier entries, the     *)
(* output is as long as the text and the markers together, and the         *)
(* character at offset j sits after the markers anchored at or before j.   *)
(***************************************************************************)
C3_MarkersSplicedAtAnchors ==
    op = "insert_durchen_tags" =>
        /\ result.error = ""
        /\ Len(result.value) = Len(text) + MarkerLength(Table, Len(Table))
        /\ \A i \in 1..Len(Table) :
              LET at == Table[i].original_pos + MarkerLength(Table, i - 1)
              IN  SubSeq(result.value, at + 1, at + Len(Table[i].tag)) = Table[i].tag
        /\ \A j \in 0..(Len(text) - 1) :
              result.value[j + MarkerLength(Table, AnchoredUpTo(Table, j)) + 1] = text[j + 1]

C3_Witness ==
    /\ op = "insert_durchen_tags"
    /\ Len(Table) = 3
    /\ Table[1].original_pos < Table[2].original_pos
    /\ Table[2].original_pos = Table[3].original_pos
    /\ Table[2].tag # Table[3].tag
    /\ Table[3].original_pos < Len(text)
    /\ durchen_data[1].span.end > durchen_data[3].span.end

EntriesAt(tag_position_map, p) ==
    LET At(tag_info) == tag_info.original_pos = p
    IN  SelectSeq(tag_position_map, At)

AnnotationsAt(durchen, p) ==
    LET At(item) == item.span.end = p
        ending == SelectSeq(durchen, At)
    IN  [i \in 1..Len(ending) |-> [tag |-> Marker(ending[i].note), original_pos |-> p]]

(***************************************************************************)
(* C4.  The marker table is a stable sort of the annotations: one entry    *)
(* per annotation, ascending by span.end, and the entries of one offset    *)
(* are the annotations of that offset in input order.                      *)
(***************************************************************************)
C4_TableIsStableSort ==
    op = "build_tag_position_map_from_durchen" =>
        /\ result.error = ""
        /\ Len(result.value) = Len(durchen_data)
        /\ \A i \in 1..(Len(result.value) - 1) :
              result.value[i].original_pos <= result.value[i + 1].original_pos
        /\ \A p \in 0..Len(text) :
              EntriesAt(result.value, p) = AnnotationsAt(durchen_data, p)

C4_Witness ==
    /\ op = "build_tag_position_map_from_durchen"
    /\ \E i, j \in 1..Len(durchen_data) :
          /\ i < j
          /\ durchen_data[i].span.end = durchen_data[j].span.end
          /\ durchen_data[i].note # durchen_data[j].note
    /\ \E i, j \in 1..Len(durchen_data) :
          /\ i < j
          /\ durchen_data[i].span.end > durchen_data[j].span.end

(***************************************************************************)
(* The test suite's marker stripper:                                       *)
(*   re.sub(r'<sup[^>]*></sup><i[^>]*>.*?</i>', '', s)                     *)
(***************************************************************************)
StartsWithAt(s, i, literal) ==
    /\ i + Len(literal) - 1 <= Len(s)
    /\ SubSeq(s, i, i + Len(literal) - 1) = literal

Least(S) == CHOOSE x \in S : \A y \in S : x <= y

\* [^>]*> from index i: the index of the first ">" at or after i, 0 if none.
FirstClosingBracket(s, i) ==
    LET found == {j \in i..Len(s) : s[j] = ">"}
    IN  IF found = {} THEN 0 ELSE Least(found)

\* .*?</i> from index i: the last index of the first "</i>" at or after i,
\* 0 if there is none or a line break comes before it.
LazyUntilClose(s, i) ==
    LET found == {j \in i..Len(s) : StartsWithAt(s, j, MarkerClose)}
    IN  IF found = {} THEN 0
        ELSE IF \E k \in i..(Least(found) - 1) : s[k] = "\n" THEN 0
        ELSE Least(found) + Len(MarkerClose) - 1

\* The last index of the match that starts at index i, 0 if none does.
MatchEnd(s, i) ==
    IF ~StartsWithAt(s, i, <<"<", "s", "u", "p">>) THEN 0
    ELSE LET j == FirstClosingBracket(s, i + 4)
         IN  IF j = 0 \/ ~StartsWithAt(s, j + 1, <<"<", "/", "s", "u", "p", ">", "<", "i">>) THEN 0
             ELSE LET k == FirstClosingBracket(s, j + 9)
                  IN  IF k = 0 THEN 0 ELSE LazyUntilClose(s, k + 1)

RECURSIVE StripFrom(_, _)
StripFrom(s, i) ==
    IF i > Len(s) THEN <<>>
    ELSE IF MatchEnd(s, i) > 0 THEN StripFrom(s, MatchEnd(s, i) + 1)
    ELSE <<s[i]>> \o StripFrom(s, i + 1)

StripMarkers(s) == StripFrom(s, 1)

RoundTrips ==
    /\ op = "insert_durchen_tags" => StripMarkers(result.value) = text
    /\ op = "get_segment_with_tags" =>
          StripMarkers(result.value) = PySlice(text, args.start, args.end)
    /\ op = "get_all_segments_with_tags" =>
          \A i \in 1..Len(result.value) :
              StripMarkers(result.value[i].content) =
                  PySlice(text, args.segmentation_data[i].span.start,
                                args.segmentation_data[i].span.end)

(***************************************************************************)
(* C5.  As stated: for all texts and annotation sets, stripping the        *)
(* marker elements from the output of any of the three renderers gives     *)
(* back the original text of the rendered range.                           *)
(***************************************************************************)
C5_AsStated == RoundTrips

\* No note contains a line break or </i>, and the text does not contain <sup.
StripSafe ==
    /\ ~Occurs(<<"<", "s", "u", "p">>, text)
    /\ \A i \in 1..Len(durchen_data) :
          /\ ~Occurs(<<"\n">>, durchen_data[i].note)
          /\ ~Occurs(MarkerClose, durchen_data[i].note)

\* C5, amended.  The round trip holds provided no note contains a line
\* break or the substring </i> and the text does not contain <sup.
C5_RoundTripOfSafeContent == StripSafe => RoundTrips

C5_Witness ==
    /\ StripSafe
    /\ op = "get_segment_with_tags"
    /\ 0 < args.start
    /\ \E i \in 1..Len(Table) :
          args.start < Table[i].original_pos /\ Table[i].original_pos < args.end
    /\ \E i \in 1..Len(Table) : Table[i].original_pos = args.end
    /\ result.value # PySlice(text, args.start, args.end)

(***************************************************************************)
(* C6.  The batch renderer returns one result per segment, in input        *)
(* order, each with the segment's id and the content that                  *)
(* get_segment_with_tags gives for that segment alone with a table built   *)
(* afresh from the annotations.                                            *)
(***************************************************************************)
C6_BatchEquivalence ==
    (op = "get_all_segments_with_tags" /\ args.durchen_data # None) =>
        LET segmentation_data == args.segmentation_data
        IN  /\ result.error = ""
            /\ Len(result.value) = Len(segmentation_data)
            /\ \A i \in 1..Len(segmentation_data) :
                  /\ result.value[i].id = segmentation_data[i].id
                  /\ result.value[i].content =
                        get_segment_with_tags(text,
                            build_tag_position_map_from_durchen(args.durchen_data[1]).value,
                            segmentation_data[i].span.start,
                            segmentation_data[i].span.end)

\* Two overlapping segments that render different content.
C6_Witness ==
    /\ op = "get_all_segments_with_tags"
    /\ args.durchen_data # None
    /\ Len(args.segmentation_data) = 2
    /\ args.segmentation_data[1].span.start < args.segmentation_data[2].span.start
    /\ args.segmentation_data[2].span.start < args.segmentation_data[1].span.end
    /\ args.segmentation_data[1].span.end < args.segmentation_data[2].span.end
    /\ Len(Table) > 0
    /\ Occurs(Table[1].tag, result.value[1].content)
    /\ Occurs(Table[1].tag, result.value[2].content)

(***************************************************************************)
(* C7.  As stated: every rendered segment of the batch carries the input   *)
(* segment's span next to its id and content.  The code builds a new       *)
(* dictionary of id and content only.                                      *)
(***************************************************************************)
C7_AsStated ==
    (op = "get_all_segments_with_tags" /\ result.error = "") =>
        \A i \in 1..Len(result.value) :
            /\ "span" \in DOMAIN result.value[i]
            /\ result.value[i].span = args.segmentation_data[i].span

AnnotationOutOfRange(t, durchen) ==
    \E i \in 1..Len(durchen) :
        /\ "span" \in DOMAIN durchen[i]
        /\ "end" \in DOMAIN durchen[i].span
        /\ durchen[i].span.end \notin 0..Len(t)

SpanOutOfRange(t, span) ==
    /\ "start" \in DOMAIN span
    /\ "end" \in DOMAIN span
    /\ \/ span.start \notin 0..Len(t)
       \/ span.end \notin 0..Len(t)
       \/ span.start > span.end

SegmentOutOfRange(t, segmentation_data) ==
    \E i \in 1..Len(segmentation_data) :
        /\ "span" \in DOMAIN segmentation_data[i]
        /\ SpanOutOfRange(t, segmentation_data[i].span)

(***************************************************************************)
(* C8.  As stated: an annotation end outside [0, len(text)], a segment     *)
(* bound outside [0, len(text)] or a segment with start > end makes the    *)
(* call fail without an output string.  The code slices, and slices clamp. *)
(***************************************************************************)
C8_AsStated ==
    /\ (op = "insert_durchen_tags" /\ AnnotationOutOfRange(text, durchen_data))
           => result.error # ""
    /\ (op = "get_segment_with_tags" /\ SpanOutOfRange(text, args))
           => result.error # ""
    /\ (/\ op = "get_all_segments_with_tags"
        /\ \/ SegmentOutOfRange(text, args.segmentation_data)
           \/ /\ args.durchen_data # None
              /\ AnnotationOutOfRange(text, args.durchen_data[1]))
           => result.error # ""

MalformedAnnotation(item) ==
    \/ "span" \notin DOMAIN item
    \/ "note" \notin DOMAIN item
    \/ /\ "span" \in DOMAIN item
       /\ \/ "start" \notin DOMAIN item.span
          \/ "end" \notin DOMAIN item.span

MalformedSegment(segment) ==
    \/ "id" \notin DOMAIN segment
    \/ "span" \notin DOMAIN segment
    \/ /\ "span" \in DOMAIN segment
       /\ \/ "start" \notin DOMAIN segment.span
          \/ "end" \notin DOMAIN segment.span

(***************************************************************************)
(* C9.  As stated: an annotation without span, span.start, span.end or     *)
(* note, or a segment without id, span, span.start or span.end, makes      *)
(* insert_durchen_tags and get_all_segments_with_tags fail.  The code      *)
(* never reads an annotation's span.start.                                 *)
(***************************************************************************)
C9_AsStated ==
    /\ (/\ op = "insert_durchen_tags"
        /\ \E i \in 1..Len(durchen_data) : MalformedAnnotation(durchen_data[i]))
           => result.error # ""
    /\ (/\ op = "get_all_segments_with_tags"
        /\ \/ \E i \in 1..Len(args.segmentation_data) :
                 MalformedSegment(args.segmentation_data[i])
           \/ /\ args.durchen_data # None
              /\ \E i \in 1..Len(args.durchen_data[1]) :
                    MalformedAnnotation(args.durchen_data[1][i]))
           => result.error # ""

(***************************************************************************)
(* C10.  As stated: with durchen_data left at None the batch renderer      *)
(* still returns one dictionary of id and content per segment.  The code   *)
(* binds the table only when durchen_data is given and reads it for the    *)
(* first segment.                                                          *)
(***************************************************************************)
C10_AsStated ==
    (op = "get_all_segments_with_tags" /\ args.durchen_data = None)
        => /\ result.error = ""
           /\ Len(result.value) = Len(args.segmentation_data)
           /\ \A i \in 1..Len(result.value) :
                 /\ "content" \in DOMAIN result.value[i]
                 /\ result.value[i].id = args.segmentation_data[i].id

\* The segments cut the text at 0 = c0 < c1 < ... < cm = len(text).
IsPartition(t, segmentation_data) ==
    /\ Len(segmentation_data) = 0 => Len(t) = 0
    /\ Len(segmentation_data) > 0 =>
          /\ segmentation_data[1].span.start = 0
          /\ segmentation_data[Len(segmentation_data)].span.end = Len(t)
    /\ \A i \in 1..Len(segmentation_data) :
          segmentation_data[i].span.start < segmentation_data[i].span.end
    /\ \A i \in 1..(Len(segmentation_data) - 1) :
          segmentation_data[i].span.end = segmentation_data[i + 1].span.start

Contents(segments_with_tags) ==
    [i \in 1..Len(segments_with_tags) |-> segments_with_tags[i].content]

AnchoredAfterZero(durchen) ==
    LET After(item) == item.span.end # 0
    IN  SelectSeq(durchen, After)

(***************************************************************************)
(* C11.  Over a partition of the text the rendered segments, concatenated, *)
(* are insert_durchen_tags of the text with the annotations that end at 0  *)
(* left out: every marker anchored in (0, len(text)] is rendered in        *)
(* exactly one segment, and a marker anchored at 0 in none, although       *)
(* insert_durchen_tags renders it.                                         *)
(***************************************************************************)
C11_PartitionConsistency ==
    (/\ op = "get_all_segments_with_tags"
     /\ args.durchen_data # None
     /\ IsPartition(text, args.segmentation_data))
        => /\ result.error = ""
           /\ Flatten(Contents(result.value)) =
                 insert_durchen_tags(text, AnchoredAfterZero(durchen_data)).value
           /\ AnchoredAfterZero(durchen_data) # durchen_data
                 => Flatten(Contents(result.value)) #
                        insert_durchen_tags(text, durchen_data).value

\* Two segments, a marker anchored at the cut and a marker anchored at 0.
C11_Witness ==
    /\ op = "get_all_segments_with_tags"
    /\ args.durchen_data # None
    /\ IsPartition(text, args.segmentation_data)
    /\ Len(args.segmentation_data) = 2
    /\ \E i \in 1..Len(Table) : Table[i].original_pos = 0
    /\ \E i \in 1..Len(Table) :
          /\ Table[i].original_pos = args.segmentation_data[1].span.end
          /\ Occurs(Table[i].tag, result.value[1].content)
          /\ ~Occurs(Table[i].tag, result.value[2].content)

====
